---- MODULE Spec2Model ----
(***************************************************************************)
(* Model of apollo-router/src/warp_http_server_factory.rs (the server task *)
(* with its accept loop, at the end of the module) and of                  *)
(* apollo-router/src/json_ext.rs: the JSON Value extension trait           *)
(* (deep_merge, from_path, insert, select_values_and_paths) and the Path   *)
(* type with its text parsing (From<T: AsRef<str>>) and rendering          *)
(* (Display).                                                              *)
(*                                                                         *)
(* Texts (Rust String / &str) are sequences of one-character strings.      *)
(* A Value is a record of one fixed shape, so that any two Values can be   *)
(* compared:  t is the variant, n the payload of a Number, a the           *)
(* elements of an Array, o the entries of an Object in insertion order     *)
(* (serde_json_bytes::Map keeps insertion order; keys are unique).         *)
(***************************************************************************)
EXTENDS Integers, Sequences, FiniteSets, TLC

VARIABLES op, doc, root, path, value, result, matches, log, text, parsed, rendered,
          answer,
          server, shutdown_receiver, connections, notify_calls, tcp_listener,
          accepted_at_exit, spawned_before_signal

\* the state of the calls on Values and Paths
valueVars == <<op, doc, root, path, value, result, matches, log, text, parsed,
               rendered, answer>>

\* the state of the HTTP server task and of its connection tasks
serverVars == <<server, shutdown_receiver, connections, notify_calls, tcp_listener,
                accepted_at_exit, spawned_before_signal>>

vars == <<valueVars, serverVars>>

-----------------------------------------------------------------------------
(* Bounds of the model *)

\* path elements Index(0) .. Index(MaxIndex)
MaxIndex == 2
\* longest Path given to from_path and to Display
MaxPathLen == 3
\* longest Path walked through a document by insert and select_values_and_paths
MaxWalkLen == 2
\* longest text given to Path::from
MaxTextLen == 3

-----------------------------------------------------------------------------
(* Texts *)

Alphabet == {"a", "0", "1", "/", "@", "+"}

DigitChars == <<"0", "1", "2", "3", "4", "5", "6", "7", "8", "9">>

IsDigit(c) == \E d \in 1..10 : DigitChars[d] = c

DigitVal(c) == (CHOOSE d \in 1..10 : DigitChars[d] = c) - 1

RECURSIVE TextsUpTo(_)
TextsUpTo(n) ==
    IF n = 0 THEN {<<>>}
    ELSE LET S == TextsUpTo(n - 1)
         IN  S \cup {Append(s, c) : s \in {x \in S : Len(x) = n - 1}, c \in Alphabet}

Texts == TextsUpTo(MaxTextLen)

\* usize Display ("{}"): the canonical decimal digits of n
RECURSIVE UsizeToString(_)
UsizeToString(n) ==
    IF n < 10 THEN <<DigitChars[n + 1]>>
    ELSE Append(UsizeToString(n \div 10), DigitChars[(n % 10) + 1])

RECURSIVE DigitsValue(_)
DigitsValue(s) ==
    IF s = <<>> THEN 0
    ELSE 10 * DigitsValue(SubSeq(s, 1, Len(s) - 1)) + DigitVal(s[Len(s)])

\* str::parse::<usize>: an optional leading '+', then one or more decimal
\* digits.  (Every digit string within MaxTextLen + 1 characters is far below
\* usize::MAX, so the overflow error cannot arise in this model.)
ParseUsizeDigits(s) == IF Len(s) > 0 /\ s[1] = "+" THEN Tail(s) ELSE s

ParseUsizeOk(s) ==
    LET d == ParseUsizeDigits(s)
    IN  Len(d) > 0 /\ \A j \in 1..Len(d) : IsDigit(d[j])

ParseUsize(s) == DigitsValue(ParseUsizeDigits(s))

\* str::split('/'): always at least one segment; the empty text gives <<"">>
RECURSIVE SplitSkipEmpty(_)
SplitSkipEmpty(s) ==
    IF \A j \in 1..Len(s) : s[j] # "/" THEN (IF s = <<>> THEN <<>> ELSE <<s>>)
    ELSE LET j == CHOOSE x \in 1..Len(s) :
                      s[x] = "/" /\ \A y \in 1..(x - 1) : s[y] # "/"
         IN  (IF j = 1 THEN <<>> ELSE <<SubSeq(s, 1, j - 1)>>)
             \o SplitSkipEmpty(SubSeq(s, j + 1, Len(s)))

RECURSIVE Split(_)
Split(s) ==
    IF \A j \in 1..Len(s) : s[j] # "/" THEN <<s>>
    ELSE LET j == CHOOSE x \in 1..Len(s) :
                      s[x] = "/" /\ \A y \in 1..(x - 1) : s[y] # "/"
         IN  <<SubSeq(s, 1, j - 1)>> \o Split(SubSeq(s, j + 1, Len(s)))

-----------------------------------------------------------------------------
(* PathElement and Path *)

Flatten == [e |-> "Flatten", i |-> 0, k |-> <<>>]

Index(n) == [e |-> "Index", i |-> n, k |-> <<>>]

Key(s) == [e |-> "Key", i |-> 0, k |-> s]

EmptyPath == <<>>

Join(p, q) == p \o q

\* the closure shared by Path::from_slice and From<T> for Path
PathElementFromStr(s) ==
    IF ParseUsizeOk(s) THEN Index(ParseUsize(s))
    ELSE IF s = <<"@">> THEN Flatten
    ELSE Key(s)

FromSlice(segs) == [j \in 1..Len(segs) |-> PathElementFromStr(segs[j])]

PathFrom(s) == FromSlice(Split(s))

ElementToString(el) ==
    IF el.e = "Index" THEN UsizeToString(el.i)
    ELSE IF el.e = "Key" THEN el.k
    ELSE <<"@">>

\* Display for Path: a '/' before every element
RECURSIVE PathToStringJoined(_)
PathToStringJoined(p) ==
    IF p = <<>> THEN <<>>
    ELSE IF Len(p) = 1 THEN ElementToString(Head(p))
    ELSE ElementToString(Head(p)) \o <<"/">> \o PathToStringJoined(Tail(p))

RECURSIVE PathToString(_)
PathToString(p) ==
    IF p = <<>> THEN <<>>
    ELSE <<"/">> \o ElementToString(Head(p)) \o PathToString(Tail(p))

-----------------------------------------------------------------------------
(* Value *)

Null == [t |-> "null", n |-> 0, a |-> <<>>, o |-> <<>>]

Num(x) == [t |-> "num", n |-> x, a |-> <<>>, o |-> <<>>]

Arr(elems) == [t |-> "arr", n |-> 0, a |-> elems, o |-> <<>>]

\* entries: a sequence of [k |-> key, v |-> Value] with distinct keys
Obj(entries) == [t |-> "obj", n |-> 0, a |-> <<>>, o |-> entries]

Entry(k, v) == [k |-> k, v |-> v]

\* Map::get / Map::get_mut / Map::entry: the position of key k, 0 when absent
KeyPos(entries, k) ==
    IF \E j \in 1..Len(entries) : entries[j].k = k
    THEN CHOOSE j \in 1..Len(entries) : entries[j].k = k
    ELSE 0

HasKey(entries, k) == KeyPos(entries, k) # 0

Nulls(n) == [j \in 1..n |-> Null]

\* PartialEq for Value: Objects are equal as maps, whatever their key order
RECURSIVE ValueEq(_, _)
ValueEq(x, y) ==
    /\ x.t = y.t
    /\ x.n = y.n
    /\ Len(x.a) = Len(y.a)
    /\ \A j \in 1..Len(x.a) : ValueEq(x.a[j], y.a[j])
    /\ Len(x.o) = Len(y.o)
    /\ \A j \in 1..Len(x.o) :
          /\ HasKey(y.o, x.o[j].k)
          /\ ValueEq(x.o[j].v, y.o[KeyPos(y.o, x.o[j].k)].v)

-----------------------------------------------------------------------------
(* Results *)

Ok == "ok"

\* FetchError::ExecutionPathNotFound { reason }
ExpectedArray == "expected an array"

ExpectedObject == "expected an object"

\* Option::expect on None, unreachable!(): the call unwinds
Panic == "panic"

-----------------------------------------------------------------------------
(* ValueExt::insert *)

\* the walk of insert from current_node over the remaining path: res is the
\* outcome, v is current_node's subtree when the call returns or stops
RECURSIVE InsertAt(_, _, _)

\* PathElement::Flatten
InsertFlattenFanOut(node, rest, val) ==
    IF node.t = "null" THEN InsertAt(Arr(<<>>), rest, val)
    ELSE IF node.t # "arr" THEN [res |-> ExpectedArray, v |-> node]
    ELSE LET rs == [j \in 1..Len(node.a) |-> InsertAt(node.a[j], rest, val)]
         IN  [res |-> IF \A j \in 1..Len(rs) : rs[j].res = Ok THEN Ok
                      ELSE rs[CHOOSE j \in 1..Len(rs) : rs[j].res # Ok].res,
              v   |-> Arr([j \in 1..Len(rs) |-> rs[j].v])]

InsertFlattenStops(node, rest, val) == [res |-> Ok, v |-> node]

InsertFlatten(node, rest, val) ==
    IF node.t = "null" THEN InsertAt(Arr(<<>>), rest, val)
    ELSE IF node.t # "arr" THEN [res |-> ExpectedArray, v |-> node]
    ELSE InsertAt(node, rest, val)

\* PathElement::Index(index)
InsertIndexFresh(node, index, rest, val) ==
    IF node.t = "arr" \/ node.t = "null"
    THEN LET a2 == Nulls(index + 1)
             r  == InsertAt(a2[index + 1], rest, val)
         IN  [res |-> r.res, v |-> Arr([a2 EXCEPT ![index + 1] = r.v])]
    ELSE [res |-> ExpectedArray, v |-> node]

InsertIndex(node, index, rest, val) ==
    IF node.t = "arr" \/ node.t = "null"
    THEN LET old == IF node.t = "arr" THEN node.a ELSE <<>>
             a2  == IF Len(old) < index + 1
                    THEN old \o Nulls(index + 1 - Len(old))
                    ELSE old
             r   == InsertAt(a2[index + 1], rest, val)
         IN  [res |-> r.res, v |-> Arr([a2 EXCEPT ![index + 1] = r.v])]
    ELSE [res |-> ExpectedArray, v |-> node]

\* PathElement::Key(k): on an Object, get_mut(k).expect(..) unwinds when the
\* Object has no key k
InsertKey(node, k, rest, val) ==
    IF node.t = "obj"
    THEN LET j == KeyPos(node.o, k)
         IN  IF j = 0 THEN [res |-> Panic, v |-> node]
             ELSE LET r == InsertAt(node.o[j].v, rest, val)
                  IN  [res |-> r.res, v |-> Obj([node.o EXCEPT ![j].v = r.v])]
    ELSE IF node.t = "null"
    THEN LET r == InsertAt(Null, rest, val)
         IN  [res |-> r.res, v |-> Obj(<<Entry(k, r.v)>>)]
    ELSE [res |-> ExpectedObject, v |-> node]

\* *current_node = value
InsertWriteIfNull(node, val) == IF node.t = "null" THEN val ELSE node

InsertWrite(node, val) == val

InsertAt(node, p, val) ==
    IF p = <<>> THEN [res |-> Ok, v |-> InsertWrite(node, val)]
    ELSE CASE Head(p).e = "Flatten" -> InsertFlatten(node, Tail(p), val)
           [] Head(p).e = "Index" -> InsertIndex(node, Head(p).i, Tail(p), val)
           [] Head(p).e = "Key" -> InsertKey(node, Head(p).k, Tail(p), val)

-----------------------------------------------------------------------------
(* ValueExt::from_path *)

\* the loop of from_path from current_node over the remaining path
RECURSIVE FromPathAt(_, _, _)

\* PathElement::Flatten: return res_value
FromPathFlattenPlacesLeaf(node, rest, val) == [res |-> Ok, v |-> val]

FromPathFlatten(node, rest, val) == [res |-> Ok, v |-> node]

\* PathElement::Index(index)
FromPathIndexOneMore(node, index, rest, val) ==
    LET a2 == Nulls(index + 2)
        r  == FromPathAt(a2[index + 1], rest, val)
    IN  [res |-> r.res, v |-> Arr([a2 EXCEPT ![index + 1] = r.v])]

FromPathIndex(node, index, rest, val) ==
    IF node.t = "arr" \/ node.t = "null"
    THEN LET old == IF node.t = "arr" THEN node.a ELSE <<>>
             a2  == old \o Nulls(index + 1)
             r   == FromPathAt(a2[index + 1], rest, val)
         IN  [res |-> r.res, v |-> Arr([a2 EXCEPT ![index + 1] = r.v])]
    ELSE [res |-> Panic, v |-> node]

\* PathElement::Key(k)
FromPathKey(node, k, rest, val) ==
    LET r == FromPathAt(Null, rest, val)
    IN  [res |-> r.res, v |-> Obj(<<Entry(k, r.v)>>)]

FromPathAt(node, p, val) ==
    IF p = <<>> THEN [res |-> Ok, v |-> val]
    ELSE CASE Head(p).e = "Flatten" -> FromPathFlatten(node, Tail(p), val)
           [] Head(p).e = "Index" -> FromPathIndex(node, Head(p).i, Tail(p), val)
           [] Head(p).e = "Key" -> FromPathKey(node, Head(p).k, Tail(p), val)

\* res_value starts as Value::default()
FromPath(p, val) == FromPathAt(Null, p, val)

-----------------------------------------------------------------------------
(* ValueExt::select_values_and_paths *)

\* the calls of f, in order, each with its resolved path and its value
RECURSIVE IteratePath(_, _, _)
RECURSIVE IterateElements(_, _, _, _)
IterateElementsReversed(parent, rest, elems, j) ==
    IF j > Len(elems) THEN <<>>
    ELSE IterateElements(parent, rest, elems, j + 1)
         \o IteratePath(Join(parent, PathFrom(UsizeToString(j - 1))), rest, elems[j])

IterateElements(parent, rest, elems, j) ==
    IF j > Len(elems) THEN <<>>
    ELSE IteratePath(Join(parent, PathFrom(UsizeToString(j - 1))), rest, elems[j])
         \o IterateElements(parent, rest, elems, j + 1)

IteratePathNullForMissing(parent, p, data) ==
    IF p = <<>> THEN <<[path |-> parent, value |-> data]>>
    ELSE
    LET el   == Head(p)
        rest == Tail(p)
    IN  CASE el.e = "Flatten" ->
               IF data.t = "arr" THEN IterateElements(parent, rest, data.a, 1)
               ELSE <<>>
          [] el.e = "Index" ->
               IF data.t = "arr" /\ el.i < Len(data.a)
               THEN IteratePath(Join(parent, PathFrom(UsizeToString(el.i))),
                                rest, data.a[el.i + 1])
               ELSE <<>>
          [] el.e = "Key" ->
               IF data.t = "obj" /\ HasKey(data.o, el.k)
               THEN IteratePath(Join(parent, PathFrom(el.k)),
                                rest, data.o[KeyPos(data.o, el.k)].v)
               ELSE IteratePath(Join(parent, PathFrom(el.k)), rest, Null)

IteratePath(parent, p, data) ==
    IF p = <<>> THEN <<[path |-> parent, value |-> data]>>
    ELSE
    LET el   == Head(p)
        rest == Tail(p)
    IN  CASE el.e = "Flatten" ->
               IF data.t = "arr" THEN IterateElements(parent, rest, data.a, 1)
               ELSE <<>>
          [] el.e = "Index" ->
               IF data.t = "arr" /\ el.i < Len(data.a)
               THEN IteratePath(Join(parent, PathFrom(UsizeToString(el.i))),
                                rest, data.a[el.i + 1])
               ELSE <<>>
          [] el.e = "Key" ->
               IF data.t = "obj" /\ HasKey(data.o, el.k)
               THEN IteratePath(Join(parent, PathFrom(el.k)),
                                rest, data.o[KeyPos(data.o, el.k)].v)
               ELSE <<>>

SelectValuesAndPaths(self, p) == IteratePath(EmptyPath, p, self)

-----------------------------------------------------------------------------
(* ValueExt::deep_merge *)

\* failfast_debug!(msg): records the diagnostic and goes on
FailfastDebug(msg) == [res |-> Ok, log |-> <<msg>>]

Min(x, y) == IF x < y THEN x ELSE y

\* deep_merge: res is Ok unless the call unwinds, v is self afterwards, log
\* the diagnostics emitted
RECURSIVE DeepMerge(_, _)
\* (Object, Object): the loop over b's entries, a being self's entries so far
RECURSIVE MergeEntries(_, _)
MergeEntriesOverwrites(a, b) ==
    IF b = <<>> THEN [res |-> Ok, o |-> a, log |-> <<>>]
    ELSE
    LET e == Head(b)
        j == KeyPos(a, e.k)
    IN  IF j = 0 THEN MergeEntries(Append(a, e), Tail(b))
        ELSE MergeEntries([a EXCEPT ![j].v = e.v], Tail(b))

MergeEntries(a, b) ==
    IF b = <<>> THEN [res |-> Ok, o |-> a, log |-> <<>>]
    ELSE
    LET e == Head(b)
        j == KeyPos(a, e.k)
    IN  IF j = 0 THEN MergeEntries(Append(a, e), Tail(b))
        ELSE LET r  == DeepMerge(a[j].v, e.v)
                 a2 == [a EXCEPT ![j].v = r.v]
             IN  IF r.res # Ok THEN [res |-> r.res, o |-> a2, log |-> r.log]
                 ELSE LET r2 == MergeEntries(a2, Tail(b))
                      IN  [res |-> r2.res, o |-> r2.o, log |-> r.log \o r2.log]

\* (Array, Array): the zipped loop over the first n elements, from position j
RECURSIVE MergeZip(_, _, _, _)
MergeZipOverwrites(a, b, n, j) ==
    [res |-> Ok,
     a   |-> [i \in 1..Len(a) |-> IF j <= i /\ i <= n THEN b[i] ELSE a[i]],
     log |-> <<>>]

MergeZip(a, b, n, j) ==
    IF j > n THEN [res |-> Ok, a |-> a, log |-> <<>>]
    ELSE LET r  == DeepMerge(a[j], b[j])
             a2 == [a EXCEPT ![j] = r.v]
         IN  IF r.res # Ok THEN [res |-> r.res, a |-> a2, log |-> r.log]
             ELSE LET r2 == MergeZip(a2, b, n, j + 1)
                  IN  [res |-> r2.res, a |-> r2.a, log |-> r.log \o r2.log]

DeepMergeConflictReplaces(self, other) ==
    CASE self.t = "obj" /\ other.t = "obj" ->
           LET r == MergeEntries(self.o, other.o)
           IN  [res |-> r.res, v |-> Obj(r.o), log |-> r.log]
      [] self.t = "arr" /\ other.t = "arr" ->
           LET n == Min(Len(self.a), Len(other.a))
               r == MergeZip(self.a, other.a, n, 1)
           IN  IF r.res # Ok THEN [res |-> r.res, v |-> Arr(r.a), log |-> r.log]
               ELSE [res |-> Ok,
                     v   |-> Arr(r.a \o SubSeq(other.a, n + 1, Len(other.a))),
                     log |-> r.log]
      [] other.t = "null" ->
           [res |-> Ok, v |-> self, log |-> <<>>]
      [] self.t = "obj" /\ other.t = "arr" ->
           LET d == FailfastDebug("trying to replace an object with an array")
           IN  [res |-> d.res, v |-> other, log |-> d.log]
      [] self.t = "arr" /\ other.t = "obj" ->
           LET d == FailfastDebug("trying to replace an array with an object")
           IN  [res |-> d.res, v |-> other, log |-> d.log]
      [] OTHER ->
           [res |-> Ok,
            v   |-> IF ~ValueEq(other, Null) THEN other ELSE self,
            log |-> <<>>]

DeepMergeNullErases(self, other) ==
    CASE self.t = "obj" /\ other.t = "obj" ->
           LET r == MergeEntries(self.o, other.o)
           IN  [res |-> r.res, v |-> Obj(r.o), log |-> r.log]
      [] self.t = "arr" /\ other.t = "arr" ->
           LET n == Min(Len(self.a), Len(other.a))
               r == MergeZip(self.a, other.a, n, 1)
           IN  IF r.res # Ok THEN [res |-> r.res, v |-> Arr(r.a), log |-> r.log]
               ELSE [res |-> Ok,
                     v   |-> Arr(r.a \o SubSeq(other.a, n + 1, Len(other.a))),
                     log |-> r.log]
      [] other.t = "null" ->
           [res |-> Ok, v |-> other, log |-> <<>>]
      [] self.t = "obj" /\ other.t = "arr" ->
           LET d == FailfastDebug("trying to replace an object with an array")
           IN  [res |-> d.res, v |-> self, log |-> d.log]
      [] self.t = "arr" /\ other.t = "obj" ->
           LET d == FailfastDebug("trying to replace an array with an object")
           IN  [res |-> d.res, v |-> self, log |-> d.log]
      [] OTHER ->
           [res |-> Ok,
            v   |-> IF ~ValueEq(other, Null) THEN other ELSE self,
            log |-> <<>>]

DeepMergeAppendsAll(self, other) ==
    CASE self.t = "obj" /\ other.t = "obj" ->
           LET r == MergeEntries(self.o, other.o)
           IN  [res |-> r.res, v |-> Obj(r.o), log |-> r.log]
      [] self.t = "arr" /\ other.t = "arr" ->
           LET n == Min(Len(self.a), Len(other.a))
               r == MergeZip(self.a, other.a, n, 1)
           IN  IF r.res # Ok THEN [res |-> r.res, v |-> Arr(r.a), log |-> r.log]
               ELSE [res |-> Ok,
                     v   |-> Arr(r.a \o other.a),
                     log |-> r.log]
      [] other.t = "null" ->
           [res |-> Ok, v |-> self, log |-> <<>>]
      [] self.t = "obj" /\ other.t = "arr" ->
           LET d == FailfastDebug("trying to replace an object with an array")
           IN  [res |-> d.res, v |-> self, log |-> d.log]
      [] self.t = "arr" /\ other.t = "obj" ->
           LET d == FailfastDebug("trying to replace an array with an object")
           IN  [res |-> d.res, v |-> self, log |-> d.log]
      [] OTHER ->
           [res |-> Ok,
            v   |-> IF ~ValueEq(other, Null) THEN other ELSE self,
            log |-> <<>>]

DeepMergeKeepsContainer(self, other) ==
    CASE self.t = "obj" /\ other.t = "obj" ->
           LET r == MergeEntries(self.o, other.o)
           IN  [res |-> r.res, v |-> Obj(r.o), log |-> r.log]
      [] self.t = "arr" /\ other.t = "arr" ->
           LET n == Min(Len(self.a), Len(other.a))
               r == MergeZip(self.a, other.a, n, 1)
           IN  IF r.res # Ok THEN [res |-> r.res, v |-> Arr(r.a), log |-> r.log]
               ELSE [res |-> Ok,
                     v   |-> Arr(r.a \o SubSeq(other.a, n + 1, Len(other.a))),
                     log |-> r.log]
      [] other.t = "null" ->
           [res |-> Ok, v |-> self, log |-> <<>>]
      [] self.t = "obj" /\ other.t = "arr" ->
           LET d == FailfastDebug("trying to replace an object with an array")
           IN  [res |-> d.res, v |-> self, log |-> d.log]
      [] self.t = "arr" /\ other.t = "obj" ->
           LET d == FailfastDebug("trying to replace an array with an object")
           IN  [res |-> d.res, v |-> self, log |-> d.log]
      [] OTHER ->
           [res |-> Ok,
            v   |-> IF ~ValueEq(other, Null) /\ self.t \notin {"obj", "arr"}
                    THEN other ELSE self,
            log |-> <<>>]

DeepMerge(self, other) ==
    CASE self.t = "obj" /\ other.t = "obj" ->
           LET r == MergeEntries(self.o, other.o)
           IN  [res |-> r.res, v |-> Obj(r.o), log |-> r.log]
      [] self.t = "arr" /\ other.t = "arr" ->
           LET n == Min(Len(self.a), Len(other.a))
               r == MergeZip(self.a, other.a, n, 1)
           IN  IF r.res # Ok THEN [res |-> r.res, v |-> Arr(r.a), log |-> r.log]
               ELSE [res |-> Ok,
                     v   |-> Arr(r.a \o SubSeq(other.a, n + 1, Len(other.a))),
                     log |-> r.log]
      [] other.t = "null" ->
           [res |-> Ok, v |-> self, log |-> <<>>]
      [] self.t = "obj" /\ other.t = "arr" ->
           LET d == FailfastDebug("trying to replace an object with an array")
           IN  [res |-> d.res, v |-> self, log |-> d.log]
      [] self.t = "arr" /\ other.t = "obj" ->
           LET d == FailfastDebug("trying to replace an array with an object")
           IN  [res |-> d.res, v |-> self, log |-> d.log]
      [] OTHER ->
           [res |-> Ok,
            v   |-> IF ~ValueEq(other, Null) THEN other ELSE self,
            log |-> <<>>]

-----------------------------------------------------------------------------
(* ValueExt::eq_and_ordered *)

RECURSIVE EqAndOrdered(_, _)

\* (Object, Object): the loop over both iterators, from position j
RECURSIVE EqOrderedEntries(_, _, _)
EqOrderedEntries(a, b, j) ==
    IF j > Len(a) /\ j > Len(b) THEN TRUE
    ELSE IF j > Len(a) \/ j > Len(b) THEN FALSE
    ELSE IF a[j].k = b[j].k /\ EqAndOrdered(a[j].v, b[j].v)
    THEN EqOrderedEntries(a, b, j + 1)
    ELSE FALSE

\* (Array, Array): the loop over both iterators, from position j
RECURSIVE EqOrderedElements(_, _, _)
EqOrderedElements(a, b, j) ==
    IF j > Len(a) /\ j > Len(b) THEN TRUE
    ELSE IF j > Len(a) \/ j > Len(b) THEN FALSE
    ELSE IF EqAndOrdered(a[j], b[j])
    THEN EqOrderedElements(a, b, j + 1)
    ELSE FALSE

EqAndOrderedUnordered(self, other) == ValueEq(self, other)

EqAndOrdered(self, other) ==
    CASE self.t = "obj" /\ other.t = "obj" -> EqOrderedEntries(self.o, other.o, 1)
      [] self.t = "arr" /\ other.t = "arr" -> EqOrderedElements(self.a, other.a, 1)
      [] OTHER -> ValueEq(self, other)

-----------------------------------------------------------------------------
(* ValueExt::is_subset *)

RECURSIVE IsSubset(_, _)

IsSubsetOfPrefix(self, superset) ==
    CASE self.t = "obj" /\ superset.t = "obj" ->
           \A j \in 1..Len(self.o) :
               /\ HasKey(superset.o, self.o[j].k)
               /\ IsSubset(self.o[j].v,
                           superset.o[KeyPos(superset.o, self.o[j].k)].v)
      [] self.t = "arr" /\ superset.t = "arr" ->
           \A j \in 1..Len(self.a) :
               /\ j <= Len(superset.a)
               /\ IsSubset(self.a[j], superset.a[j])
      [] OTHER -> ValueEq(self, superset)

IsSubsetMirrored(self, superset) ==
    CASE self.t = "obj" /\ superset.t = "obj" ->
           \A j \in 1..Len(self.o) :
               /\ HasKey(superset.o, self.o[j].k)
               /\ IsSubset(self.o[j].v,
                           superset.o[KeyPos(superset.o, self.o[j].k)].v)
      [] self.t = "arr" /\ superset.t = "arr" ->
           /\ Len(self.a) = Len(superset.a)
           /\ \A j \in 1..Len(self.a) :
                 IsSubset(self.a[j], superset.a[Len(superset.a) + 1 - j])
      [] OTHER -> ValueEq(self, superset)

IsSubset(self, superset) ==
    CASE self.t = "obj" /\ superset.t = "obj" ->
           \A j \in 1..Len(self.o) :
               /\ HasKey(superset.o, self.o[j].k)
               /\ IsSubset(self.o[j].v,
                           superset.o[KeyPos(superset.o, self.o[j].k)].v)
      [] self.t = "arr" /\ superset.t = "arr" ->
           /\ Len(self.a) = Len(superset.a)
           /\ \A j \in 1..Len(self.a) :
                 /\ j <= Len(superset.a)
                 /\ IsSubset(self.a[j], superset.a[j])
      [] OTHER -> ValueEq(self, superset)

-----------------------------------------------------------------------------
(* Inputs *)

\* object keys and Key elements: plain names, and names that read as another
\* element kind or hold the separator
Keys == {<<"a">>, <<"b">>, <<"1">>, <<"@">>, <<"a", "/", "b">>, <<"+", "1">>, <<>>}

\* keys of the documents and of the paths walked through them
DocKeys == {<<"a">>, <<"b">>, <<"1">>, <<"@">>, <<"a", "/", "b">>}

Elements(keys) ==
    {Flatten} \cup {Index(i) : i \in 0..MaxIndex} \cup {Key(k) : k \in keys}

RECURSIVE PathsUpTo(_, _)
PathsUpTo(n, elems) ==
    IF n = 0 THEN {<<>>}
    ELSE LET S == PathsUpTo(n - 1, elems)
         IN  S \cup {Append(p, el) : p \in {x \in S : Len(x) = n - 1}, el \in elems}

Paths == PathsUpTo(MaxPathLen, Elements(Keys))

WalkPaths == PathsUpTo(MaxWalkLen, Elements(DocKeys))

Leaves == {Null, Num(1), Num(2)}

ArraysOf(S) ==
    {Arr(<<>>)} \cup {Arr(<<x>>) : x \in S} \cup {Arr(<<x, y>>) : x \in S, y \in S}

ObjectsOf(S) ==
    {Obj(<<>>)}
    \cup {Obj(<<Entry(k, x)>>) : k \in DocKeys, x \in S}
    \cup {Obj(<<Entry(<<"a">>, x), Entry(<<"b">>, y)>>) : x \in S, y \in S}
    \cup {Obj(<<Entry(<<"b">>, x), Entry(<<"a">>, y)>>) : x \in S, y \in S}

Level1 == Leaves \cup ArraysOf(Leaves) \cup ObjectsOf(Leaves)

Pairable ==
    {Num(1), Arr(<<>>), Arr(<<Num(1)>>), Arr(<<Num(1), Num(2)>>), Obj(<<>>),
     Obj(<<Entry(<<"a">>, Num(1))>>), Obj(<<Entry(<<"a">>, Num(2))>>),
     Obj(<<Entry(<<"b">>, Num(1))>>)}

Level2 ==
    {Arr(<<x>>) : x \in Level1}
    \cup {Obj(<<Entry(<<"a">>, x)>>) : x \in Level1}
    \cup {Arr(<<x, y>>) : x \in Pairable, y \in Pairable}
    \cup {Obj(<<Entry(<<"a">>, x), Entry(<<"b">>, y)>>) : x \in Pairable, y \in Pairable}

Docs == Level1 \cup Level2

\* the value written by insert, the leaf wrapped by from_path
NewValues == {Num(7), Obj(<<Entry(<<"a">>, Num(1))>>), Null}

-----------------------------------------------------------------------------
(* The calls.  Each action is one call of one operation on inputs drawn from  *)
(* the sets above: doc is self before the call, root is self after it.        *)

Init ==
    /\ op = "none"
    /\ doc = Null
    /\ root = Null
    /\ path = <<>>
    /\ value = Null
    /\ result = Ok
    /\ matches = <<>>
    /\ log = <<>>
    /\ text = <<>>
    /\ parsed = <<>>
    /\ rendered = <<>>
    /\ answer = FALSE
    /\ server = "select"
    /\ shutdown_receiver = "open"
    /\ connections = <<>>
    /\ notify_calls = 0
    /\ tcp_listener = "listening"
    /\ accepted_at_exit = 0
    /\ spawned_before_signal = {}

Insert ==
    /\ op = "none"
    /\ \E d \in Docs, p \in WalkPaths, v \in NewValues :
          LET r == InsertAt(d, p, v)
          IN  /\ op' = "insert"
              /\ doc' = d
              /\ path' = p
              /\ value' = v
              /\ result' = r.res
              /\ root' = r.v
    /\ UNCHANGED <<serverVars, answer, matches, log, text, parsed, rendered>>

\* the inserted document read back along the path just written
SelectInserted ==
    /\ op = "insert"
    /\ result = Ok
    /\ op' = "insert_select"
    /\ matches' = SelectValuesAndPaths(root, path)
    /\ UNCHANGED <<serverVars, answer, doc, root, path, value, result, log, text, parsed, rendered>>

Select ==
    /\ op = "none"
    /\ \E d \in Docs, p \in WalkPaths :
          /\ op' = "select"
          /\ doc' = d
          /\ root' = d
          /\ path' = p
          /\ matches' = SelectValuesAndPaths(d, p)
    /\ UNCHANGED <<serverVars, answer, value, result, log, text, parsed, rendered>>

FromPathCall ==
    /\ op = "none"
    /\ \E p \in Paths, v \in NewValues :
          LET r == FromPath(p, v)
          IN  /\ op' = "from_path"
              /\ path' = p
              /\ value' = v
              /\ result' = r.res
              /\ root' = r.v
    /\ UNCHANGED <<serverVars, answer, doc, matches, log, text, parsed, rendered>>

DeepMergeCall ==
    /\ op = "none"
    /\ \E d \in Docs, o \in Docs :
          LET r == DeepMerge(d, o)
          IN  /\ op' = "deep_merge"
              /\ doc' = d
              /\ value' = o
              /\ result' = r.res
              /\ root' = r.v
              /\ log' = r.log
    /\ UNCHANGED <<serverVars, answer, path, matches, text, parsed, rendered>>

EqAndOrderedCall ==
    /\ op = "none"
    /\ \E d \in Docs, o \in Docs :
          /\ op' = "eq_and_ordered"
          /\ doc' = d
          /\ root' = d
          /\ value' = o
          /\ answer' = EqAndOrdered(d, o)
    /\ UNCHANGED <<serverVars, path, result, matches, log, text, parsed, rendered>>

IsSubsetCall ==
    /\ op = "none"
    /\ \E d \in Docs, o \in Docs :
          /\ op' = "is_subset"
          /\ doc' = d
          /\ root' = d
          /\ value' = o
          /\ answer' = IsSubset(d, o)
    /\ UNCHANGED <<serverVars, path, result, matches, log, text, parsed, rendered>>

Next ==
    \/ Insert \/ SelectInserted \/ Select \/ FromPathCall \/ DeepMergeCall
    \/ EqAndOrderedCall \/ IsSubsetCall

Spec == Init /\ [][Next]_vars

-----------------------------------------------------------------------------
(* The calls on path texts *)

\* Path::from(text)
Parse ==
    /\ op = "none"
    /\ \E s \in Texts :
          /\ op' = "parse"
          /\ text' = s
          /\ parsed' = PathFrom(s)
    /\ UNCHANGED <<serverVars, answer, doc, root, path, value, result, matches, log, rendered>>

\* the parsed Path rendered again
RenderParsed ==
    /\ op = "parse"
    /\ op' = "parse_to_string"
    /\ rendered' = PathToString(parsed)
    /\ UNCHANGED <<serverVars, answer, doc, root, path, value, result, matches, log, text, parsed>>

\* path.to_string()
Render ==
    /\ op = "none"
    /\ \E p \in Paths :
          /\ op' = "to_string"
          /\ path' = p
          /\ rendered' = PathToString(p)
    /\ UNCHANGED <<serverVars, answer, doc, root, value, result, matches, log, text, parsed>>

\* the rendered text parsed again
ParseRendered ==
    /\ op = "to_string"
    /\ op' = "to_string_parse"
    /\ parsed' = PathFrom(rendered)
    /\ UNCHANGED <<serverVars, answer, doc, root, path, value, result, matches, log, text, rendered>>

NextPath == Parse \/ RenderParsed \/ Render \/ ParseRendered

SpecPath == Init /\ [][NextPath]_vars

-----------------------------------------------------------------------------
(* WarpHttpServerFactory::create: the server task and its connection tasks.  *)
(*                                                                           *)
(* server is the position of the server task: "select" (in the loop, at the  *)
(* select!), "exited" (after break), "notified" (after notify_waiters()),   *)
(* "done" (the task returned tcp_listener), "panicked".                      *)
(* shutdown_receiver is the oneshot channel: "open", "sent" (a value was     *)
(* sent), "dropped" (the sender was dropped).                                *)
(* connections holds one record per spawned connection task, in the order    *)
(* of the accepts: res is the result of accept() moved into the task, st the *)
(* position of the task: "spawned" (not polled yet), "panicked" (unwrap of   *)
(* an Err), "serving" (pending in the inner select!, waiting on              *)
(* connection_shutdown.notified()), "notified" (woken by notify_waiters()),  *)
(* "draining" (graceful_shutdown() called, awaiting the connection),         *)
(* "shut_down" (the drained connection ended), "finished" (the connection    *)
(* ended by itself).                                                         *)
(* accepted_at_exit and spawned_before_signal record the past: the number of *)
(* connections accepted when the loop was left, and the connection tasks     *)
(* spawned while the shutdown channel was still open.                        *)

\* most connection tasks spawned in one behaviour
MaxConnections == 3

AcceptResults == {"ok", "err"}

\* _ = &mut shutdown_receiver: the receiver resolves on a value and on the
\* drop of the sender, and the pattern takes both
ShutdownReadyOnValue(rx) == rx = "sent"

ShutdownReady(rx) == rx \in {"sent", "dropped"}

\* res = tcp_listener.accept() => tokio::task::spawn(async move { .. }):
\* res moves into the new task, the loop goes on
AcceptBranchUnwraps(res) ==
    [server |-> IF res = "err" THEN "panicked" ELSE "select",
     task   |-> [res |-> res, st |-> "spawned"]]

AcceptBranch(res) ==
    [server |-> "select", task |-> [res |-> res, st |-> "spawned"]]

\* the first poll of a connection task: res.unwrap(), serve_connection, and
\* the inner select! that leaves it pending on the connection and on
\* connection_shutdown.notified()
FirstPoll(task) ==
    IF task.res = "err" THEN [task EXCEPT !.st = "panicked"]
    ELSE [task EXCEPT !.st = "serving"]

\* Notify::notify_waiters: wakes the tasks waiting now and stores no permit
NotifyWaiters(cs) ==
    [c \in 1..Len(cs) |->
        IF cs[c].st = "serving" THEN [cs[c] EXCEPT !.st = "notified"] ELSE cs[c]]

\* HttpServerHandle::shutdown sends a value; dropping the handle drops the sender
Shutdown ==
    /\ shutdown_receiver = "open"
    /\ \E how \in {"sent", "dropped"} : shutdown_receiver' = how
    /\ UNCHANGED <<valueVars, server, connections, notify_calls, tcp_listener,
                   accepted_at_exit, spawned_before_signal>>

Accept ==
    /\ server = "select"
    /\ Len(connections) < MaxConnections
    /\ \E res \in AcceptResults :
          LET r == AcceptBranch(res)
          IN  /\ server' = r.server
              /\ connections' = Append(connections, r.task)
    /\ spawned_before_signal' =
          IF shutdown_receiver = "open"
          THEN spawned_before_signal \cup {Len(connections) + 1}
          ELSE spawned_before_signal
    /\ UNCHANGED <<valueVars, shutdown_receiver, notify_calls, tcp_listener,
                   accepted_at_exit>>

Break ==
    /\ server = "select"
    /\ ShutdownReady(shutdown_receiver)
    /\ server' = "exited"
    /\ accepted_at_exit' = Len(connections)
    /\ UNCHANGED <<valueVars, shutdown_receiver, connections, notify_calls,
                   tcp_listener, spawned_before_signal>>

NotifyStep ==
    /\ server = "exited"
    /\ connections' = NotifyWaiters(connections)
    /\ notify_calls' = notify_calls + 1
    /\ server' = "notified"
    /\ UNCHANGED <<valueVars, shutdown_receiver, tcp_listener, accepted_at_exit,
                   spawned_before_signal>>

ReturnListener ==
    /\ server = "notified"
    /\ server' = "done"
    /\ tcp_listener' = "returned"
    /\ UNCHANGED <<valueVars, shutdown_receiver, connections, notify_calls,
                   accepted_at_exit, spawned_before_signal>>

TaskStart ==
    /\ \E c \in 1..Len(connections) :
          /\ connections[c].st = "spawned"
          /\ connections' = [connections EXCEPT ![c] = FirstPoll(connections[c])]
    /\ UNCHANGED <<valueVars, server, shutdown_receiver, notify_calls,
                   tcp_listener, accepted_at_exit, spawned_before_signal>>

\* _res = &mut connection: the connection finished first
ConnectionFinished ==
    /\ \E c \in 1..Len(connections) :
          /\ connections[c].st \in {"serving", "notified"}
          /\ connections' = [connections EXCEPT ![c].st = "finished"]
    /\ UNCHANGED <<valueVars, server, shutdown_receiver, notify_calls,
                   tcp_listener, accepted_at_exit, spawned_before_signal>>

\* _ = connection_shutdown.notified(): graceful_shutdown(), then connection.await
GracefulShutdown ==
    /\ \E c \in 1..Len(connections) :
          /\ connections[c].st = "notified"
          /\ connections' = [connections EXCEPT ![c].st = "draining"]
    /\ UNCHANGED <<valueVars, server, shutdown_receiver, notify_calls,
                   tcp_listener, accepted_at_exit, spawned_before_signal>>

Drained ==
    /\ \E c \in 1..Len(connections) :
          /\ connections[c].st = "draining"
          /\ connections' = [connections EXCEPT ![c].st = "shut_down"]
    /\ UNCHANGED <<valueVars, server, shutdown_receiver, notify_calls,
                   tcp_listener, accepted_at_exit, spawned_before_signal>>

NextServer ==
    \/ Shutdown \/ Accept \/ Break \/ NotifyStep \/ ReturnListener
    \/ TaskStart \/ ConnectionFinished \/ GracefulShutdown \/ Drained

SpecServer == Init /\ [][NextServer]_vars

\* the runtime polls the server task when it is woken, and select! polls its
\* branches in random order, so a ready shutdown branch is taken in the end
SpecServerLive ==
    /\ Init /\ [][NextServer]_vars
    /\ WF_vars(Break) /\ WF_vars(NotifyStep) /\ WF_vars(ReturnListener)

-----------------------------------------------------------------------------
(* Properties *)

KeyIndexOnly(p) == \A j \in 1..Len(p) : p[j].e \in {"Key", "Index"}

NoFlatten(p) == \A j \in 1..Len(p) : p[j].e # "Flatten"

HasSlash(s) == \E j \in 1..Len(s) : s[j] = "/"

KeysWithoutSlash(p) == \A j \in 1..Len(p) : p[j].e = "Key" => ~HasSlash(p[j].k)

\* a key that reads back as a Key: no separator, not the Flatten token, not
\* a text that str::parse::<usize> accepts
PlainKey(s) == ~HasSlash(s) /\ s # <<"@">> /\ ~ParseUsizeOk(s)

KeysPlain(p) == \A j \in 1..Len(p) : p[j].e = "Key" => PlainKey(p[j].k)

\* decimal digits with no leading zero
CanonicalIndex(s) ==
    /\ Len(s) > 0
    /\ \A j \in 1..Len(s) : IsDigit(s[j])
    /\ (Len(s) = 1 \/ s[1] # "0")

UnambiguousSegment(s) == PlainKey(s) \/ CanonicalIndex(s) \/ s = <<"@">>

Unambiguous(s) ==
    \A j \in 1..Len(Split(s)) : UnambiguousSegment(Split(s)[j])

Max(x, y) == IF x < y THEN y ELSE x

\* the smallest Value that holds leaf at p (p without Flatten)
RECURSIVE Minimal(_, _)
Minimal(p, leaf) ==
    IF p = <<>> THEN leaf
    ELSE IF Head(p).e = "Key"
    THEN Obj(<<Entry(Head(p).k, Minimal(Tail(p), leaf))>>)
    ELSE Arr(Nulls(Head(p).i) \o <<Minimal(Tail(p), leaf)>>)

\* the elements of p before its first Flatten
BeforeFlatten(p) ==
    SubSeq(p, 1, (CHOOSE j \in 1..Len(p) :
                     p[j] = Flatten /\ \A x \in 1..(j - 1) : p[x] # Flatten) - 1)

Conflict(x, y) ==
    (x.t = "obj" /\ y.t = "arr") \/ (x.t = "arr" /\ y.t = "obj")

ValueAt(entries, k) == entries[KeyPos(entries, k)].v

\* C1 as claimed: insert goes on when a Key(k) element reaches an Object
\* without k, creating the key; inserting 7 at a/2 into {} succeeds and
\* leaves {"a": [null, null, 7]}.
C1_InsertCreatesMissingKey ==
    (op = "insert" /\ Len(path) > 0 /\ path[1].e = "Key"
        /\ doc.t = "obj" /\ ~HasKey(doc.o, path[1].k))
        => /\ result # Panic
           /\ root.t = "obj"
           /\ HasKey(root.o, path[1].k)
           /\ (doc = Obj(<<>>) /\ path = <<Key(<<"a">>), Index(2)>> /\ value = Num(7))
                 => /\ result = Ok
                    /\ ValueEq(root,
                               Obj(<<Entry(<<"a">>, Arr(<<Null, Null, Num(7)>>))>>))

\* C4: deep_merge never fails; where self is an Object and other an Array, or
\* self an Array and other an Object, at the root or at a position directly
\* below it, that node of self is left as it was, and the sibling positions
\* are merged all the same.
C4_MergeConflictKeepsSelf ==
    op = "deep_merge" =>
        /\ result = Ok
        /\ Conflict(doc, value) => root = doc
        /\ (doc.t = "obj" /\ value.t = "obj") =>
              /\ root.t = "obj"
              /\ \A j \in 1..Len(value.o) :
                    LET k == value.o[j].k
                    IN  /\ HasKey(root.o, k)
                        /\ ~HasKey(doc.o, k) => ValueAt(root.o, k) = value.o[j].v
                        /\ (HasKey(doc.o, k) /\ Conflict(ValueAt(doc.o, k), value.o[j].v))
                              => ValueAt(root.o, k) = ValueAt(doc.o, k)
                        /\ (HasKey(doc.o, k) /\ ~Conflict(ValueAt(doc.o, k), value.o[j].v))
                              => ValueAt(root.o, k)
                                   = DeepMerge(ValueAt(doc.o, k), value.o[j].v).v
        /\ (doc.t = "arr" /\ value.t = "arr") =>
              /\ root.t = "arr"
              /\ Len(root.a) = Max(Len(doc.a), Len(value.a))
              /\ \A j \in 1..Min(Len(doc.a), Len(value.a)) :
                    IF Conflict(doc.a[j], value.a[j])
                    THEN root.a[j] = doc.a[j]
                    ELSE root.a[j] = DeepMerge(doc.a[j], value.a[j]).v
              /\ \A j \in (Len(doc.a) + 1)..Len(value.a) : root.a[j] = value.a[j]

C4_Witness ==
    /\ op = "deep_merge"
    /\ doc = Obj(<<Entry(<<"a">>, Arr(<<Num(1)>>)), Entry(<<"b">>, Arr(<<>>))>>)
    /\ value = Obj(<<Entry(<<"a">>, Obj(<<>>)), Entry(<<"b">>, Arr(<<Num(1)>>))>>)
    /\ result = Ok
    /\ root = Obj(<<Entry(<<"a">>, Arr(<<Num(1)>>)), Entry(<<"b">>, Arr(<<Num(1)>>))>>)

\* C5 as claimed: every resolved path given to the callback has as many
\* elements as the path, Key(k) where the path has Key(k), Index(i) where it
\* has Index(i), and an Index where it has Flatten, for any key k.
C5_ResolvedPathMirrorsPath ==
    op = "select" =>
        \A m \in 1..Len(matches) :
            /\ Len(matches[m].path) = Len(path)
            /\ \A j \in 1..Len(path) :
                  IF path[j].e = "Flatten" THEN matches[m].path[j].e = "Index"
                  ELSE matches[m].path[j] = path[j]

\* C6: in insert a Flatten element never fans out.  On a Null node it leaves
\* an empty Array, on an Array it changes nothing, on any other node the call
\* fails with "expected an array" and the node as it was; the next element is
\* applied to the array itself: a Key fails with "expected an object", an
\* Index(i) addresses slot i of the array and leaves every other slot alone,
\* and at the end of the path the array is replaced by the value.
C6_FlattenAssertsShapeOnly ==
    /\ (op = "insert" /\ Len(path) >= 1 /\ path[1] = Flatten) =>
          IF doc.t \notin {"null", "arr"}
          THEN result = ExpectedArray /\ root = doc
          ELSE LET base == IF doc.t = "null" THEN Arr(<<>>) ELSE doc
               IN  CASE Len(path) = 1 -> result = Ok /\ root = value
                     [] Len(path) > 1 /\ path[2].e = "Key" ->
                          result = ExpectedObject /\ root = base
                     [] Len(path) > 1 /\ path[2].e = "Flatten" ->
                          Len(path) = 2 => (result = Ok /\ root = value)
                     [] Len(path) > 1 /\ path[2].e = "Index" ->
                          /\ root.t = "arr"
                          /\ Len(root.a) = Max(Len(base.a), path[2].i + 1)
                          /\ \A j \in 1..Len(root.a) :
                                j # path[2].i + 1 =>
                                   root.a[j] = IF j <= Len(base.a) THEN base.a[j]
                                               ELSE Null
                          /\ Len(path) = 2 =>
                                (result = Ok /\ root.a[path[2].i + 1] = value)
    /\ (op = "insert" /\ Len(path) = 2 /\ path[1].e = "Key" /\ path[2] = Flatten
          /\ doc.t = "obj" /\ HasKey(doc.o, path[1].k)) =>
          IF ValueAt(doc.o, path[1].k).t \in {"null", "arr"}
          THEN /\ result = Ok
               /\ root = Obj([doc.o EXCEPT ![KeyPos(doc.o, path[1].k)].v = value])
          ELSE result = ExpectedArray /\ root = doc

C6_Witness ==
    /\ op = "insert"
    /\ doc = Arr(<<Obj(<<>>), Obj(<<>>)>>)
    /\ path = <<Flatten, Index(1)>>
    /\ value = Num(7)
    /\ result = Ok
    /\ root = Arr(<<Obj(<<>>), Num(7)>>)

\* C7 as claimed: insert fails only with a PathConflict: "expected an array"
\* exactly when an Index or Flatten element meets a node that is neither Null
\* nor an Array, "expected an object" exactly when a Key element meets a node
\* that is neither Null nor an Object; otherwise it succeeds.
C7_InsertFailsOnlyWithPathConflict ==
    op = "insert" =>
        /\ result \in {Ok, ExpectedArray, ExpectedObject}
        /\ Len(path) = 1 =>
              /\ result = ExpectedArray
                    <=> (path[1].e \in {"Index", "Flatten"}
                            /\ doc.t \notin {"null", "arr"})
              /\ result = ExpectedObject
                    <=> (path[1].e = "Key" /\ doc.t \notin {"null", "obj"})

\* C8: after a successful insert along a path without Flatten, selecting with
\* the same path calls the callback exactly once, with the inserted value.
C8_InsertedValueIsSelected ==
    (op = "insert_select" /\ NoFlatten(path)) =>
        /\ Len(matches) = 1
        /\ ValueEq(matches[1].value, value)

C8_Witness ==
    /\ op = "insert_select"
    /\ doc = Obj(<<Entry(<<"a">>, Arr(<<Num(1)>>))>>)
    /\ path = <<Key(<<"a">>), Index(0)>>
    /\ value = Num(7)
    /\ root = Obj(<<Entry(<<"a">>, Arr(<<Num(7)>>))>>)
    /\ Len(matches) = 1

\* C9: from_path stops at the first Flatten and returns what it has built,
\* without the leaf: the slot the Flatten would address is Null, the rest of
\* the path is dropped; a/@/b gives {"a": null}, a leading Flatten gives Null.
C9_FromPathStopsAtFlatten ==
    (op = "from_path" /\ ~NoFlatten(path)) =>
        /\ result = Ok
        /\ root = Minimal(BeforeFlatten(path), Null)
        /\ path[1] = Flatten => root = Null
        /\ path = <<Key(<<"a">>), Flatten, Key(<<"b">>)>>
              => root = Obj(<<Entry(<<"a">>, Null)>>)

C9_Witness ==
    /\ op = "from_path"
    /\ path = <<Key(<<"a">>), Flatten, Key(<<"b">>)>>
    /\ value = Num(7)
    /\ root = Obj(<<Entry(<<"a">>, Null)>>)

\* C10: for a path without Flatten, from_path returns the smallest Value that
\* holds the leaf at the path: a one-entry Object for each Key(k), an Array
\* of exactly i + 1 slots, the first i Null, for each Index(i), the leaf
\* innermost; for the empty path the leaf itself.
C10_FromPathIsMinimal ==
    (op = "from_path" /\ NoFlatten(path)) =>
        /\ result = Ok
        /\ root = Minimal(path, value)
        /\ path = <<>> => root = value
        /\ (Len(path) > 0 /\ path[1].e = "Key") =>
              /\ root.t = "obj"
              /\ Len(root.o) = 1
              /\ root.o[1].k = path[1].k
        /\ (Len(path) > 0 /\ path[1].e = "Index") =>
              /\ root.t = "arr"
              /\ Len(root.a) = path[1].i + 1
              /\ \A j \in 1..path[1].i : root.a[j] = Null

C10_Witness ==
    /\ op = "from_path"
    /\ path = <<Key(<<"a">>), Key(<<"b">>), Index(1)>>
    /\ value = Obj(<<Entry(<<"a">>, Num(1))>>)
    /\ root = Obj(<<Entry(<<"a">>,
                 Obj(<<Entry(<<"b">>, Arr(<<Null, value>>))>>))>>)

(* ---------------------------------------------------------------- *)
(* deep_merge: arrays, objects, Null, self-merge, fallback            *)
(* ---------------------------------------------------------------- *)

OnlyInOther(e) == ~HasKey(doc.o, e.k)

\* C11: when both operands of deep_merge are arrays, the elements at the
\* positions both have are merged pairwise, self's elements beyond other's
\* length stay as they were, other's elements beyond self's length are
\* appended in order, and the result has the length of the longer operand.
C11_ArrayMergeIsPairwise ==
    (op = "deep_merge" /\ doc.t = "arr" /\ value.t = "arr") =>
        LET n == Min(Len(doc.a), Len(value.a))
        IN  /\ result = Ok
            /\ root.t = "arr"
            /\ Len(root.a) = Max(Len(doc.a), Len(value.a))
            /\ \A j \in 1..n : root.a[j] = DeepMerge(doc.a[j], value.a[j]).v
            /\ \A j \in (n + 1)..Len(doc.a) : root.a[j] = doc.a[j]
            /\ \A j \in (Len(doc.a) + 1)..Len(value.a) : root.a[j] = value.a[j]

C11_Witness ==
    /\ op = "deep_merge"
    /\ doc = Arr(<<Obj(<<Entry(<<"a">>, Num(1))>>)>>)
    /\ value = Arr(<<Obj(<<Entry(<<"b">>, Num(1))>>), Num(1)>>)
    /\ root = Arr(<<Obj(<<Entry(<<"a">>, Num(1)), Entry(<<"b">>, Num(1))>>),
                    Num(1)>>)

\* C12: when both operands of deep_merge are objects, the result holds the
\* union of their keys: self's keys first, in self's order, a key of both
\* holding the recursive merge of the two values, a key of self alone its
\* old value; other's new keys follow in other's order; no key is removed.
C12_ObjectMergeIsUnion ==
    (op = "deep_merge" /\ doc.t = "obj" /\ value.t = "obj") =>
        /\ result = Ok
        /\ root.t = "obj"
        /\ Len(root.o) >= Len(doc.o)
        /\ \A j \in 1..Len(doc.o) :
              /\ root.o[j].k = doc.o[j].k
              /\ root.o[j].v =
                    IF HasKey(value.o, doc.o[j].k)
                    THEN DeepMerge(doc.o[j].v, ValueAt(value.o, doc.o[j].k)).v
                    ELSE doc.o[j].v
        /\ SubSeq(root.o, Len(doc.o) + 1, Len(root.o))
              = SelectSeq(value.o, OnlyInOther)

C12_Witness ==
    /\ op = "deep_merge"
    /\ doc = Obj(<<Entry(<<"a">>, Arr(<<Num(1)>>)), Entry(<<"b">>, Num(1))>>)
    /\ value = Obj(<<Entry(<<"a">>, Arr(<<Null, Num(2)>>))>>)
    /\ root = Obj(<<Entry(<<"a">>, Arr(<<Num(1), Num(2)>>)),
                    Entry(<<"b">>, Num(1))>>)

C12_WitnessAppended ==
    /\ op = "deep_merge"
    /\ doc = Obj(<<Entry(<<"1">>, Num(1))>>)
    /\ value = Obj(<<Entry(<<"b">>, Num(2)), Entry(<<"a">>, Num(1))>>)
    /\ root = Obj(<<Entry(<<"1">>, Num(1)), Entry(<<"b">>, Num(2)),
                    Entry(<<"a">>, Num(1))>>)

\* C13: a Null in other never erases data: merging Null into any value
\* leaves the value unchanged, and a Null met inside other at a key or a
\* position self also has leaves that node of self unchanged.
C13_NullNeverErases ==
    op = "deep_merge" =>
        /\ value = Null => (result = Ok /\ root = doc)
        /\ (doc.t = "obj" /\ value.t = "obj") =>
              \A j \in 1..Len(value.o) :
                 (value.o[j].v = Null /\ HasKey(doc.o, value.o[j].k)) =>
                    ValueAt(root.o, value.o[j].k) = ValueAt(doc.o, value.o[j].k)
        /\ (doc.t = "arr" /\ value.t = "arr") =>
              \A j \in 1..Min(Len(doc.a), Len(value.a)) :
                 value.a[j] = Null => root.a[j] = doc.a[j]

C13_Witness ==
    /\ op = "deep_merge"
    /\ doc = Obj(<<Entry(<<"a">>, Num(1)), Entry(<<"b">>, Num(2))>>)
    /\ value = Obj(<<Entry(<<"a">>, Null), Entry(<<"b">>, Num(1))>>)
    /\ root = Obj(<<Entry(<<"a">>, Num(1)), Entry(<<"b">>, Num(1))>>)

C13_WitnessTop ==
    /\ op = "deep_merge"
    /\ doc = Arr(<<Num(1), Num(2)>>)
    /\ value = Null
    /\ root = doc

\* C14: merging a value with a copy of itself gives a value equal to the
\* original under eq_and_ordered (same keys in the same order, same
\* elements in the same order).
C14_MergeWithCopyIsIdentity ==
    (op = "deep_merge" /\ value = doc) =>
        /\ result = Ok
        /\ EqAndOrdered(root, doc)
        /\ root = doc

C14_Witness ==
    /\ op = "deep_merge"
    /\ doc = Obj(<<Entry(<<"a">>, Arr(<<Num(1), Num(2)>>))>>)
    /\ value = doc
    /\ EqAndOrdered(root, doc)

\* C15: when the pair (self, other) is neither object/object, array/array,
\* object/array nor array/object and other is not Null, self is replaced
\* wholesale by other: scalar over scalar, container over scalar, and
\* scalar over container.
C15_OtherReplacesSelf ==
    (/\ op = "deep_merge"
     /\ ~(doc.t = "obj" /\ value.t = "obj")
     /\ ~(doc.t = "arr" /\ value.t = "arr")
     /\ ~Conflict(doc, value)
     /\ value.t # "null") =>
        (result = Ok /\ root = value)

C15_Witness ==
    /\ op = "deep_merge"
    /\ doc = Arr(<<Num(1), Num(2)>>)
    /\ value = Num(2)
    /\ root = Num(2)

(* ---------------------------------------------------------------- *)
(* select_values_and_paths: fan-out and dropped branches              *)
(* ---------------------------------------------------------------- *)

Prefixed(i, ms) ==
    [n \in 1..Len(ms) |->
        [path |-> <<Index(i)>> \o ms[n].path, value |-> ms[n].value]]

RECURSIVE FanOut(_, _, _)
FanOut(elems, rest, j) ==
    IF j > Len(elems) THEN <<>>
    ELSE Prefixed(j - 1, SelectValuesAndPaths(elems[j], rest))
         \o FanOut(elems, rest, j + 1)

Resolves(d, el) ==
    CASE el.e = "Flatten" -> d.t = "arr"
      [] el.e = "Index"   -> d.t = "arr" /\ el.i < Len(d.a)
      [] el.e = "Key"     -> d.t = "obj" /\ HasKey(d.o, el.k)

Child(d, el) ==
    IF el.e = "Index" THEN d.a[el.i + 1] ELSE ValueAt(d.o, el.k)

\* C16: a Flatten met on an Array continues the remaining path once for
\* each element, left to right: the callbacks are those of element 0, then
\* those of element 1, and so on (depth-first, in array order), each under
\* the element's index, and there is one callback per combination of
\* elements for which the remaining path resolves.
C16_FlattenFansOutInOrder ==
    (op = "select" /\ Len(path) >= 1 /\ path[1] = Flatten /\ doc.t = "arr") =>
        /\ matches = FanOut(doc.a, Tail(path), 1)
        /\ Len(path) = 1 =>
              /\ Len(matches) = Len(doc.a)
              /\ \A j \in 1..Len(doc.a) :
                    /\ matches[j].value = doc.a[j]
                    /\ matches[j].path = <<Index(j - 1)>>

C16_Witness ==
    /\ op = "select"
    /\ path = <<Flatten, Flatten>>
    /\ doc = Arr(<<Arr(<<Num(1), Num(2)>>), Arr(<<Num(1)>>)>>)
    /\ matches = <<[path |-> <<Index(0), Index(0)>>, value |-> Num(1)],
                   [path |-> <<Index(0), Index(1)>>, value |-> Num(2)],
                   [path |-> <<Index(1), Index(0)>>, value |-> Num(1)]>>

\* C17: a path element that does not resolve on the current node (Index on
\* a non-Array or past its end, Key on a non-Object or on an Object without
\* the key, Flatten on a non-Array) gives no callback for that branch,
\* while the elements of a fanned-out Array on which the next element does
\* resolve still give theirs, one each.
C17_UnreachableBranchesAreDropped ==
    (op = "select" /\ Len(path) >= 1) =>
        /\ ~Resolves(doc, path[1]) => matches = <<>>
        /\ (/\ Len(path) = 2
            /\ path[1] # Flatten
            /\ Resolves(doc, path[1])
            /\ ~Resolves(Child(doc, path[1]), path[2])) => matches = <<>>
        /\ (/\ Len(path) = 2
            /\ path[1] = Flatten
            /\ path[2] # Flatten
            /\ doc.t = "arr") =>
              LET hit == {j \in 1..Len(doc.a) : Resolves(doc.a[j], path[2])}
              IN  /\ Len(matches) = Cardinality(hit)
                  /\ \A n \in 1..Len(matches) :
                        /\ matches[n].path[1].e = "Index"
                        /\ matches[n].path[1].i + 1 \in hit
                        /\ matches[n].value
                              = Child(doc.a[matches[n].path[1].i + 1], path[2])
                  /\ \A j \in hit :
                        \E n \in 1..Len(matches) : matches[n].path[1] = Index(j - 1)

C17_Witness ==
    /\ op = "select"
    /\ path = <<Flatten, Key(<<"a">>)>>
    /\ doc = Arr(<<Num(1), Obj(<<Entry(<<"a">>, Num(2))>>)>>)
    /\ matches = <<[path |-> <<Index(1), Key(<<"a">>)>>, value |-> Num(2)]>>

(* ---------------------------------------------------------------- *)
(* insert: frame                                                      *)
(* ---------------------------------------------------------------- *)

RECURSIVE Frame(_, _, _)
Frame(before, after, p) ==
    IF p = <<>> THEN TRUE
    ELSE
    LET el   == Head(p)
        rest == Tail(p)
    IN  CASE el.e = "Flatten" ->
               Frame(IF before.t = "null" THEN Arr(<<>>) ELSE before, after, rest)
          [] el.e = "Index" ->
               LET old == IF before.t = "arr" THEN before.a ELSE <<>>
               IN  /\ after.t = "arr"
                   /\ Len(after.a) = Max(Len(old), el.i + 1)
                   /\ \A j \in 1..Len(after.a) :
                         j # el.i + 1 =>
                            after.a[j] = IF j <= Len(old) THEN old[j] ELSE Null
                   /\ Frame(IF el.i + 1 <= Len(old) THEN old[el.i + 1] ELSE Null,
                            after.a[el.i + 1], rest)
          [] el.e = "Key" ->
               LET old == IF before.t = "obj" THEN before.o
                          ELSE <<Entry(el.k, Null)>>
               IN  /\ after.t = "obj"
                   /\ Len(after.o) = Len(old)
                   /\ \A j \in 1..Len(old) :
                         /\ after.o[j].k = old[j].k
                         /\ old[j].k # el.k => after.o[j].v = old[j].v
                   /\ HasKey(old, el.k)
                   /\ Frame(ValueAt(old, el.k), ValueAt(after.o, el.k), rest)

\* C18: on a successful insert, an Index(i) step on an existing Array only
\* grows it: the new length is max(old length, i + 1), every old element
\* other than slot i keeps its value and position, every new slot other
\* than slot i is Null; and at every step the object entries and array
\* elements off the path are unchanged.
C18_InsertOnlyGrowsArrays ==
    (op = "insert" /\ result = Ok) => Frame(doc, root, path)

C18_Witness ==
    /\ op = "insert"
    /\ result = Ok
    /\ path = <<Key(<<"a">>), Index(2)>>
    /\ doc = Obj(<<Entry(<<"a">>, Arr(<<Num(1)>>)), Entry(<<"b">>, Num(1))>>)
    /\ value = Num(7)
    /\ root = Obj(<<Entry(<<"a">>, Arr(<<Num(1), Null, Num(7)>>)),
                    Entry(<<"b">>, Num(1))>>)

(* ---------------------------------------------------------------- *)
(* eq_and_ordered and is_subset                                       *)
(* ---------------------------------------------------------------- *)

\* C19: eq_and_ordered(a, b) is true exactly when a and b are the same
\* value with the same key order in every object and the same element
\* order in every array; it implies a == b, and two objects with the same
\* entries in a different key order are == but not eq_and_ordered.
C19_EqAndOrderedIsOrderedEquality ==
    op = "eq_and_ordered" =>
        /\ answer = (doc = value)
        /\ answer => ValueEq(doc, value)
        /\ (/\ doc.t = "obj" /\ value.t = "obj"
            /\ Len(doc.o) = 2 /\ Len(value.o) = 2
            /\ doc.o[1].k # doc.o[2].k
            /\ value.o = <<doc.o[2], doc.o[1]>>) =>
              (ValueEq(doc, value) /\ ~answer)

C19_Witness ==
    /\ op = "eq_and_ordered"
    /\ doc = Obj(<<Entry(<<"a">>, Num(1)), Entry(<<"b">>, Num(2))>>)
    /\ value = Obj(<<Entry(<<"b">>, Num(2)), Entry(<<"a">>, Num(1))>>)
    /\ ValueEq(doc, value)
    /\ answer = FALSE

\* C20: is_subset(sub, sup) is true exactly when: for two objects, every
\* key of sub is in sup with a value that sub's value is a subset of; for
\* two arrays, the lengths are equal and every element of sub is a subset
\* of sup's element at the same position; in every other case, sub == sup.
C20_IsSubsetCharacterisation ==
    op = "is_subset" =>
        /\ (doc.t = "obj" /\ value.t = "obj") =>
              answer = \A j \in 1..Len(doc.o) :
                          /\ HasKey(value.o, doc.o[j].k)
                          /\ IsSubset(doc.o[j].v, ValueAt(value.o, doc.o[j].k))
        /\ (doc.t = "arr" /\ value.t = "arr") =>
              /\ answer = (/\ Len(doc.a) = Len(value.a)
                           /\ \A j \in 1..Len(doc.a) :
                                 IsSubset(doc.a[j], value.a[j]))
              /\ Len(doc.a) # Len(value.a) => ~answer
        /\ (~(doc.t = "obj" /\ value.t = "obj")
              /\ ~(doc.t = "arr" /\ value.t = "arr")) =>
              answer = ValueEq(doc, value)

C20_Witness ==
    /\ op = "is_subset"
    /\ doc = Arr(<<Num(1)>>)
    /\ value = Arr(<<Num(1), Num(2)>>)
    /\ answer = FALSE

C20_WitnessExtraKey ==
    /\ op = "is_subset"
    /\ doc = Obj(<<Entry(<<"a">>, Num(1))>>)
    /\ value = Obj(<<Entry(<<"a">>, Num(1)), Entry(<<"b">>, Num(2))>>)
    /\ answer = TRUE

\* C21: is_subset is reflexive: is_subset(v, v) is true for every value v.
C21_IsSubsetIsReflexive ==
    (op = "is_subset" /\ value = doc) => answer = TRUE

C21_Witness ==
    /\ op = "is_subset"
    /\ doc = Arr(<<Obj(<<Entry(<<"a">>, Num(1))>>), Arr(<<Num(1), Num(2)>>)>>)
    /\ value = doc
    /\ answer = TRUE

(* ---------------------------------------------------------------- *)
(* Path parsing: classification of the segments                       *)
(* ---------------------------------------------------------------- *)

OnlyDigits(s) == Len(s) > 0 /\ \A j \in 1..Len(s) : IsDigit(s[j])

\* C22: parsing classifies each '/'-separated segment on its own: Index(n)
\* exactly when the segment is made of decimal digits only, Flatten exactly
\* when it is "@", Key(segment) in every other case, the empty segment and
\* the segments with a sign character included.
C22_SegmentsClassifiedByShape ==
    op = "parse" =>
        LET segs == Split(text)
        IN  /\ Len(parsed) = Len(segs)
            /\ \A j \in 1..Len(segs) :
                  parsed[j] = IF OnlyDigits(segs[j]) THEN Index(DigitsValue(segs[j]))
                              ELSE IF segs[j] = <<"@">> THEN Flatten
                              ELSE Key(segs[j])

(* ---------------------------------------------------------------- *)
(* insert into Null against from_path                                 *)
(* ---------------------------------------------------------------- *)

\* the path is Flattens only from its first Flatten on
OnlyFlattensAfterFirst(p) ==
    \A i \in 1..Len(p) : p[i] = Flatten => \A j \in i..Len(p) : p[j] = Flatten

\* C26 (as stated): insert into a Null document along a path without
\* Flatten succeeds and leaves the root equal to from_path(path, v); along a
\* path with a Flatten the two roots differ.
C26_InsertIntoNullIsFromPath ==
    (op = "insert" /\ doc = Null) =>
        /\ NoFlatten(path) => (result = Ok /\ root = FromPath(path, value).v)
        /\ ~NoFlatten(path) => root # FromPath(path, value).v

\* C26 (amended): insert into a Null document along a path without Flatten
\* succeeds and leaves the root equal to from_path(path, v); along a path
\* with a Flatten the two roots differ, except in one case: v is Null and
\* the path holds nothing but Flattens from its first Flatten on, where
\* both leave Null at that place.
C26_InsertIntoNullIsFromPathUnlessNullLeaf ==
    (op = "insert" /\ doc = Null) =>
        /\ NoFlatten(path) => (result = Ok /\ root = FromPath(path, value).v)
        /\ ~NoFlatten(path) =>
              ((root = FromPath(path, value).v)
                  <=> (value = Null /\ OnlyFlattensAfterFirst(path)))

C26_Witness ==
    /\ op = "insert"
    /\ doc = Null
    /\ result = Ok
    /\ path = <<Key(<<"a">>), Index(1)>>
    /\ value = Num(7)
    /\ root = Obj(<<Entry(<<"a">>, Arr(<<Null, Num(7)>>))>>)
    /\ root = FromPath(path, value).v

C26_WitnessFlatten ==
    /\ op = "insert"
    /\ doc = Null
    /\ path = <<Key(<<"a">>), Flatten>>
    /\ value = Null
    /\ root = Obj(<<Entry(<<"a">>, Null)>>)
    /\ root = FromPath(path, value).v

(* ---------------------------------------------------------------- *)
(* The HTTP server task                                               *)
(* ---------------------------------------------------------------- *)

\* C23: once the server task has called connection_shutdown
\* .notify_waiters(), no connection task spawned before the shutdown signal
\* is left serving without a shutdown request: every such task was waiting
\* on notified() when the one call was made.
C23_NoConnectionMissesTheNotify ==
    server \in {"notified", "done"} =>
        \A c \in spawned_before_signal : connections[c].st # "serving"

\* C24: once the shutdown channel holds a value or has lost its sender, the
\* accept loop exits in the end, no connection is accepted after the exit,
\* notify_waiters() is called once, and the task ends by returning the
\* listener.
C24_ShutdownEndsTheServer ==
    /\ [](server \in {"exited", "notified", "done"} =>
             /\ ShutdownReady(shutdown_receiver)
             /\ Len(connections) = accepted_at_exit)
    /\ [](/\ notify_calls = (IF server \in {"notified", "done"} THEN 1 ELSE 0)
          /\ (tcp_listener = "returned") = (server = "done"))
    /\ (shutdown_receiver # "open") ~> (server = "done")

C24_Witness ==
    /\ shutdown_receiver = "dropped"
    /\ server = "done"
    /\ tcp_listener = "returned"
    /\ notify_calls = 1
    /\ Len(connections) = 2
    /\ accepted_at_exit = 2

\* C25: a failed accept() does not stop the server: the Err is unwrapped
\* in the connection task spawned for it, which alone panics; the accept
\* loop stays at its select! and accepts the next connection.
C25_FailedAcceptStopsOnlyItsTask ==
    /\ server # "panicked"
    /\ \A c \in 1..Len(connections) :
          /\ connections[c].st = "panicked" => connections[c].res = "err"
          /\ connections[c].res = "err" => connections[c].st \in {"spawned", "panicked"}
    /\ (/\ Len(connections) > 0
        /\ connections[Len(connections)].res = "err"
        /\ shutdown_receiver = "open") =>
          /\ server = "select"
          /\ Len(connections) < MaxConnections => ENABLED Accept

C25_Witness ==
    /\ server = "select"
    /\ shutdown_receiver = "open"
    /\ Len(connections) = 2
    /\ connections[1] = [res |-> "err", st |-> "panicked"]
    /\ connections[2] = [res |-> "ok", st |-> "serving"]

====
